---- MODULE Spec2Model ----
(***************************************************************************)
(* Model of the stock-bot core: the market-data acquisition layer          *)
(* (modules/market_data.py, modules/nse_data.py) and the technical-signal  *)
(* engine (modules/technical.py).                                          *)
(*                                                                         *)
(* Eight specifications share the variables:                                *)
(*   SpecSeries   MarketDataFetcher._fetch_ohlcv, one provider attempt per *)
(*                step;                                                    *)
(*   SpecIndices  MarketDataFetcher._fetch_indices, one provider attempt   *)
(*                per step, one loop iteration per tracked index;          *)
(*   Spec         TechnicalAnalyzer.analyse applied to frames drawn from   *)
(*                bounded sets;                                            *)
(*   SpecBatch    the stock loop of build_and_send_report (bot.py);        *)
(*   SpecPure     repeated calls of analyse, notes held by reference;      *)
(*   SpecSchedule the registration of the daily job by _build_app (bot.py);*)
(*   SpecChunk    MessageFormatter._chunk, one loop iteration per step;    *)
(*   SpecHealth   concurrent build_and_send_report invocations and their   *)
(*                HealthMonitor objects (modules/health.py).               *)
(*                                                                         *)
(* Numbers.  Prices are integers in thousandths of a rupee, volumes are    *)
(* integers.  Values the code rounds with round(x, 2) are kept in          *)
(* hundredths, values rounded with round(x, 1) in tenths.                  *)
(***************************************************************************)
EXTENDS Integers, Sequences, FiniteSets, TLC

VARIABLES
    pc,        \* position of the running call
    symbol,    \* argument of _fetch_ohlcv / index of the current INDICES item
    client,    \* NSEDataFetcher._client is not None
    nseUp,     \* what the NSE upstream answers (or would answer) to this call
    yfUp,      \* what yfinance answered to this call
    queried,   \* upstream requests issued by the running call, in order
    result,    \* value returned by _fetch_ohlcv / results dict of _fetch_indices
    escaped,   \* an exception left the call
    df,        \* argument of analyse
    sig,       \* StockSignal returned by analyse
    heap,      \* the notes lists created for StockSignal objects, by creation order
    parts,     \* argument of MessageFormatter._chunk
    idx,       \* number of parts the loop of _chunk has consumed
    messages,  \* messages of _chunk
    current,   \* current of _chunk
    job,       \* the daily job registered by _build_app
    file,      \* content of data/health.json
    monitors,  \* the HealthMonitor of each build_and_send_report invocation
    report_time \* DAILY_REPORT_TIME_IST as _build_app reads it

vars == <<pc, symbol, client, nseUp, yfUp, queried, result, escaped, df, sig, heap,
          parts, idx, messages, current, job, file, monitors, report_time>>

\* Optional values: None is the empty tuple, a present value v is <<v>>
None == <<>>
Some(v) == <<v>>
IsSome(x) == x # <<>>
Val(x) == x[1]

\* not yet assigned
Unset == [kind |-> "unset"]

(***************************************************************************)
(* Bounds                                                                  *)
(***************************************************************************)
MaxRows == 2
MaxDate == 2
MaxClose == 2

(***************************************************************************)
(* config/settings.py                                                      *)
(***************************************************************************)
TRACKED_STOCKS == <<"RELIANCE", "TCS", "HDFCBANK", "INFY", "ICICIBANK">>

INDICES == << <<"NIFTY 50", "^NSEI">>,
              <<"NIFTY MIDCAP 150", "NIFTY_MID_SELECT.NS">>,
              <<"NIFTY SMALLCAP 250", "^CNXSC">>,
              <<"NIFTY BANK", "^NSEBANK">> >>

NSE_INDEX_SYMBOLS == {"NIFTY 50", "NIFTY BANK", "NIFTY MIDCAP 150", "NIFTY SMALLCAP 250"}

(***************************************************************************)
(* Provider payloads: a frame is a sequence of rows (index date, Close,    *)
(* Volume) and the set of column names the provider sent.                  *)
(***************************************************************************)
OHLC == {"Open", "High", "Low", "Close"}
OHLCV == OHLC \cup {"Volume"}

ColumnSets == {OHLCV, OHLC, OHLCV \ {"Close"}, {}}

Rows == [date : 1..MaxDate, close : 1..MaxClose, volume : 0..1]

RECURSIVE SeqsUpTo(_, _)
SeqsUpTo(S, n) ==
    IF n = 0 THEN {<<>>}
    ELSE LET shorter == SeqsUpTo(S, n - 1)
         IN  shorter \cup {Append(s, x) : s \in {t \in shorter : Len(t) = n - 1}, x \in S}

\* the payloads a provider can send: the volume is 1 in every row when the
\* Volume column is there; a column that was not sent carries no values
Frames ==
    {f \in [rows : SeqsUpTo(Rows, MaxRows), cols : ColumnSets] :
        /\ \A i \in 1..Len(f.rows) : f.rows[i].volume = (IF "Volume" \in f.cols THEN 1 ELSE 0)
        /\ ("Close" \notin f.cols => \A i \in 1..Len(f.rows) : f.rows[i].close = 1)}

EmptyFrame == [rows |-> <<>>, cols |-> {}]

\* pandas DataFrame.empty: some axis has length 0
IsEmpty(f) == Len(f.rows) = 0 \/ f.cols = {}

\* an upstream call raises (network error, timeout, parse error), returns
\* None, or returns a frame
Upstream == {[kind |-> "raise"], [kind |-> "none"]} \cup {[kind |-> "frame", frame |-> f] : f \in Frames}

\* DataFrame.sort_index(): stable sort of the rows by index date
RECURSIVE InsertRow(_, _)
InsertRow(r, rows) ==
    IF rows = <<>> THEN <<r>>
    ELSE IF r.date < Head(rows).date THEN <<r>> \o rows
    ELSE <<Head(rows)>> \o InsertRow(r, Tail(rows))

RECURSIVE SortIndex(_)
SortIndex(rows) ==
    IF rows = <<>> THEN <<>>
    ELSE InsertRow(rows[Len(rows)], SortIndex(SubSeq(rows, 1, Len(rows) - 1)))

(***************************************************************************)
(* NSEDataFetcher.get_stock_data.  The value is what the method hands to   *)
(* its caller: raised is TRUE when an exception leaves the method.         *)
(***************************************************************************)
Returned(f) == [raised |-> FALSE, frame |-> f]
Raised == [raised |-> TRUE, frame |-> EmptyFrame]

\* the block inside try: of get_stock_data
StockDataBody(up) ==
    IF up.kind = "raise" THEN Raised
    ELSE IF up.kind = "none" \/ IsEmpty(up.frame) THEN Returned(EmptyFrame)
    ELSE LET sorted == SortIndex(up.frame.rows)
             hasVol == "Volume" \in up.frame.cols
             filled == [i \in 1..Len(sorted) |->
                          [sorted[i] EXCEPT !.volume = IF hasVol THEN @ ELSE 0]]
         IN  IF OHLC \subseteq up.frame.cols
             THEN Returned([rows |-> filled, cols |-> OHLCV])
             ELSE Raised   \* KeyError from df[["Open", "High", "Low", "Close", "Volume"]]

get_stock_data(cl, up) ==
    IF ~cl THEN Returned(EmptyFrame)
    ELSE LET r == StockDataBody(up)
         IN  IF r.raised THEN Returned(EmptyFrame) ELSE r

\* NSEDataFetcher._eq_symbol and MarketDataFetcher._ticker on the tracked symbols
eq_symbol(s) == <<s, "-EQ">>
ticker_of(s) == <<s, ".NS">>

(***************************************************************************)
(* MarketDataFetcher._fetch_ohlcv                                          *)
(***************************************************************************)
NseAttempt_FallsThrough(cl, up) ==
    LET r == get_stock_data(cl, up)
    IN  [raised |-> FALSE, hit |-> FALSE, frame |-> r.frame]

\* the NSE attempt without a handler around the upstream request
NseAttempt_Propagates(cl, up) ==
    IF cl /\ up.kind = "raise"
    THEN [raised |-> TRUE, hit |-> FALSE, frame |-> EmptyFrame]
    ELSE LET r == get_stock_data(cl, up)
         IN  [raised |-> FALSE, hit |-> ~IsEmpty(r.frame), frame |-> r.frame]

\* first try: block, the NSE attempt
NseAttempt(cl, up) ==
    LET r == get_stock_data(cl, up)
    IN  IF r.raised THEN [raised |-> FALSE, hit |-> FALSE, frame |-> EmptyFrame]
        ELSE [raised |-> FALSE, hit |-> ~IsEmpty(r.frame), frame |-> r.frame]

YfAttempt_Propagates(up) ==
    IF up.kind = "raise" \/ up.kind = "none"
    THEN [raised |-> TRUE, hit |-> FALSE, frame |-> EmptyFrame]
    ELSE [raised |-> FALSE, hit |-> ~IsEmpty(up.frame), frame |-> up.frame]

\* second try: block, the yfinance attempt
YfAttempt(up) ==
    IF up.kind = "raise" \/ up.kind = "none"
    THEN [raised |-> FALSE, hit |-> FALSE, frame |-> EmptyFrame]
    ELSE [raised |-> FALSE, hit |-> ~IsEmpty(up.frame), frame |-> up.frame]

NoCall == [kind |-> "nocall"]

\* yfinance answering with a single bar, the latest session: the bar carries
\* the session's own Open, High and Low; quote is what the exchange quotes
\* for the symbol at that time (prices in rupees)
QuoteUpstream ==
    {[kind |-> "frame",
      frame |-> [rows |-> << [date |-> 1, close |-> 102, volume |-> 1,
                              open |-> o, high |-> 103, low |-> 99] >>,
                 cols |-> OHLCV],
      quote |-> [lastPrice |-> 102, previousClose |-> 100, totalTradedVolume |-> 1]] :
        o \in {100, 101}}

\* the answers of yf.download
YfUpstream == Upstream \cup QuoteUpstream

\* config/settings.py: (hour, minute) in IST
DAILY_REPORT_TIME_IST == <<9, 0>>

\* the formatter, the scheduler and the health file are not involved
ReportUnset ==
    /\ parts = <<>>
    /\ idx = 0
    /\ messages = <<>>
    /\ current = <<>>
    /\ job = Unset
    /\ file = Unset
    /\ monitors = <<>>
    /\ report_time = DAILY_REPORT_TIME_IST

ReportIdle ==
    UNCHANGED <<parts, idx, messages, current, job, file, monitors, report_time>>

InitSeries ==
    /\ pc = "idle"
    /\ symbol = ""
    /\ client \in BOOLEAN
    /\ nseUp = NoCall
    /\ yfUp = NoCall
    /\ queried = <<>>
    /\ result = Unset
    /\ escaped = FALSE
    /\ df = Unset
    /\ sig = Unset
    /\ heap = <<>>
    /\ ReportUnset

AnalyseIdle == UNCHANGED <<df, sig, heap>>

\* get_ohlcv(symbol) enters _fetch_ohlcv
FetchOhlcv ==
    /\ pc = "idle"
    /\ \E i \in 1..Len(TRACKED_STOCKS) : symbol' = TRACKED_STOCKS[i]
    /\ pc' = "nse"
    /\ nseUp' = NoCall
    /\ yfUp' = NoCall
    /\ queried' = <<>>
    /\ result' = Unset
    /\ escaped' = FALSE
    /\ UNCHANGED client
    /\ AnalyseIdle
    /\ ReportIdle

\* lines 43-51: NSE first; a non-empty frame is returned at once
TryNse ==
    /\ pc = "nse"
    /\ \E up \in Upstream :
          LET a == NseAttempt(client, up)
          IN  /\ nseUp' = (IF client THEN up ELSE NoCall)
              /\ queried' = Append(queried, <<"NSE", eq_symbol(symbol)>>)
              /\ escaped' = a.raised
              /\ IF a.raised THEN pc' = "done" /\ result' = Unset
                 ELSE IF a.hit THEN pc' = "done" /\ result' = a.frame
                 ELSE pc' = "yf" /\ result' = Unset
    /\ UNCHANGED <<symbol, client, yfUp>>
    /\ AnalyseIdle
    /\ ReportIdle

\* lines 53-78: yfinance fallback, then the empty frame
TryYf ==
    /\ pc = "yf"
    /\ \E up \in YfUpstream :
          LET a == YfAttempt(up)
          IN  /\ yfUp' = up
              /\ queried' = Append(queried, <<"YF", ticker_of(symbol)>>)
              /\ escaped' = a.raised
              /\ pc' = "done"
              /\ result' = (IF a.raised THEN Unset ELSE IF a.hit THEN a.frame ELSE EmptyFrame)
    /\ UNCHANGED <<symbol, client, nseUp>>
    /\ AnalyseIdle
    /\ ReportIdle

\* the caller takes the frame; the fetcher keeps nothing between calls
ReturnOhlcv ==
    /\ pc = "done"
    /\ pc' = "idle"
    /\ UNCHANGED <<symbol, client, nseUp, yfUp, queried, result, escaped>>
    /\ AnalyseIdle
    /\ ReportIdle

NextSeries == FetchOhlcv \/ TryNse \/ TryYf \/ ReturnOhlcv

SpecSeries == InitSeries /\ [][NextSeries]_vars

(***************************************************************************)
(* modules/technical.py                                                    *)
(***************************************************************************)
\* thresholds of config/settings.py; the multiplier 1.5 is kept in hundredths
VOLUME_SPIKE_MULTIPLIER == 150
RSI_OVERSOLD == 40
RSI_BULLISH_ZONE == 50
RSI_OVERBOUGHT == 70
EMA_SHORT == 20
EMA_LONG == 50
MACD_FAST == 12
MACD_SLOW == 26
MACD_SIGNAL == 9
RSI_LENGTH == 14
FULL_BARS == 30
VOLUME_WINDOW == 20

\* indicator values carry three more decimal digits than the prices
FX == 10 * 100

\* floor of num / den plus one half, den > 0: the nearest integer, an exact
\* half going up
Nearest(num, den) == (num + den \div 2) \div den

\* Python round() of the quotient num / den to the unit of the result, den > 0.
\* Which way an exact decimal half goes depends on the binary value of the
\* float operand, which integers do not carry: tieUp is that outcome.
Round(num, den, tieUp) ==
    LET fl == num \div den
        rem == num - fl * den
    IN  IF 2 * rem < den THEN fl
        ELSE IF 2 * rem > den THEN fl + 1
        ELSE IF tieUp THEN fl + 1 ELSE fl

Max(a, b) == IF a >= b THEN a ELSE b

\* pandas ewm(adjust=False).mean() with alpha = anum / aden, seeded by the
\* first value: (1 - alpha) * w + alpha * cur, computed as w + alpha * (cur - w)
\* so that the products stay within TLC's integers
RECURSIVE Ewm(_, _, _)
Ewm(vals, anum, aden) ==
    IF Len(vals) <= 1 THEN vals
    ELSE LET prev == Ewm(SubSeq(vals, 1, Len(vals) - 1), anum, aden)
             w == prev[Len(prev)]
             cur == vals[Len(vals)]
         IN  Append(prev, IF w = cur THEN w
                          ELSE w + Nearest(anum * (cur - w), aden))

\* _ema(series, length): span = length, alpha = 2 / (length + 1)
Ema(series, length) == Ewm(series, 2, length + 1)

\* delta = series.diff() without its leading NaN
Diff(series) == [i \in 1..(Len(series) - 1) |-> series[i + 1] - series[i]]

\* _rsi without avg_loss.replace(0, np.nan): avg_gain / 0 is inf and the RSI
\* 100, 0 / 0 is NaN
Rsi_DividesByLoss(series, length) ==
    IF Len(series) < 2 THEN None
    ELSE LET delta == Diff(series)
             gain == [i \in 1..Len(delta) |-> Max(delta[i], 0)]
             loss == [i \in 1..Len(delta) |-> Max(-delta[i], 0)]
             avg_gain == Ewm(gain, 1, length)
             avg_loss == Ewm(loss, 1, length)
             g == avg_gain[Len(delta)]
             l == avg_loss[Len(delta)]
         IN  IF l = 0 THEN (IF g = 0 THEN None ELSE Some([num |-> 100, den |-> 1]))
             ELSE Some([num |-> 100 * g, den |-> g + l])

\* _rsi(series, length) at the last bar: NaN (None here) when avg_loss is
\* replaced by NaN, otherwise 100 - 100 / (1 + avg_gain / avg_loss), kept as
\* the fraction 100 * avg_gain / (avg_gain + avg_loss)
Rsi(series, length) ==
    IF Len(series) < 2 THEN None
    ELSE LET delta == Diff(series)
             gain == [i \in 1..Len(delta) |-> Max(delta[i], 0)]
             loss == [i \in 1..Len(delta) |-> Max(-delta[i], 0)]
             avg_gain == Ewm(gain, 1, length)
             avg_loss == Ewm(loss, 1, length)
             g == avg_gain[Len(delta)]
             l == avg_loss[Len(delta)]
         IN  IF l = 0 THEN None ELSE Some([num |-> 100 * g, den |-> g + l])

\* _macd with the two EMAs exchanged
Macd_Swapped(close, fast, slow, signal) ==
    LET ema_fast == Ema(close, fast)
        ema_slow == Ema(close, slow)
        macd_line == [i \in 1..Len(close) |-> ema_slow[i] - ema_fast[i]]
    IN  <<macd_line, Ema(macd_line, signal)>>

\* _macd(close, fast, slow, signal): <<macd_line, signal_line>> (the histogram is unused)
Macd(close, fast, slow, signal) ==
    LET ema_fast == Ema(close, fast)
        ema_slow == Ema(close, slow)
        macd_line == [i \in 1..Len(close) |-> ema_fast[i] - ema_slow[i]]
    IN  <<macd_line, Ema(macd_line, signal)>>

\* TRADE_LEVELS, two of its five entries
TRADE_LEVELS ==
    [t \in {"NATCOPHARM", "MCX"} |->
        IF t = "NATCOPHARM"
        THEN [entry |-> "845-880", sl |-> "720", st_target |-> "940-960",
              mt_target |-> "1060-1150", rr |-> "1:2.5", pattern |-> "Double Bottom"]
        ELSE [entry |-> "8400-8700", sl |-> "7900", st_target |-> "9200-9500",
              mt_target |-> "10200-10800", rr |-> "1:2.5", pattern |-> "Double Bottom + Marubozu"]]

Placeholder == "-"

Level(ticker, key) ==
    IF ticker \in DOMAIN TRADE_LEVELS THEN TRADE_LEVELS[ticker][key] ELSE Placeholder

\* StockSignal(ticker=ticker) with the saved trade levels, lines 126-135
StockSignal(ticker) ==
    [ticker |-> ticker, cmp |-> None, change_pct |-> None, rsi |-> None,
     macd_bullish |-> FALSE, above_ema20 |-> FALSE, above_ema50 |-> FALSE,
     volume_spike |-> FALSE, volume_ratio |-> None,
     pattern |-> Level(ticker, "pattern"), overall_signal |-> "NEUTRAL",
     entry_zone |-> Level(ticker, "entry"), stop_loss |-> Level(ticker, "sl"),
     st_target |-> Level(ticker, "st_target"), mt_target |-> Level(ticker, "mt_target"),
     rr_ratio |-> Level(ticker, "rr"), signal_emoji |-> "white",
     notes |-> <<>>, error |-> None]

NoData_KeepsSignal(s) == [s EXCEPT !.error = Some("Insufficient data")]

\* lines 137-141
NoData(s) ==
    [s EXCEPT !.error = Some("Insufficient data"), !.overall_signal = "NO DATA",
              !.signal_emoji = "question"]

\* the frame analyse receives: the Close and Volume values, and for each of
\* the two columns whether it is there ("ok"), absent ("missing") or holds
\* values float() rejects ("bad")
Bars(d) == Len(d.close)

PriceAction_NeedsTwoBars(s, d, tieUp) ==
    LET close == d.close
        n == Len(close)
    IN  [s EXCEPT !.cmp = IF n >= 2 THEN Some(Round(close[n], 10, tieUp)) ELSE None,
                  !.change_pct =
                      IF n >= 2
                      THEN Some(Round((close[n] - close[n - 1]) * 10000, close[n - 1], tieUp))
                      ELSE None]

PriceAction_Truncates(s, d, tieUp) ==
    LET close == d.close
        n == Len(close)
    IN  [s EXCEPT !.cmp = Some(close[n] \div 10),
                  !.change_pct =
                      IF n >= 2
                      THEN Some(Round((close[n] - close[n - 1]) * 10000, close[n - 1], tieUp))
                      ELSE None]

\* lines 152-159, price action
PriceAction(s, d, tieUp) ==
    LET close == d.close
        n == Len(close)
    IN  [s EXCEPT !.cmp = Some(Round(close[n], 10, tieUp)),
                  !.change_pct =
                      IF n >= 2
                      THEN Some(Round((close[n] - close[n - 1]) * 10000, close[n - 1], tieUp))
                      ELSE None]

\* lines 163-186, RSI, MACD and the two EMAs
Indicators(s, d, tieUp) ==
    LET close == [i \in 1..Len(d.close) |-> d.close[i] * FX]
        n == Len(close)
        last_rsi == Rsi(close, RSI_LENGTH)
        ml == Macd(close, MACD_FAST, MACD_SLOW, MACD_SIGNAL)
        ema20 == Ema(close, EMA_SHORT)
        ema50 == Ema(close, EMA_LONG)
    IN  [s EXCEPT !.rsi = IF IsSome(last_rsi)
                          THEN Some(Round(10 * Val(last_rsi).num, Val(last_rsi).den, tieUp))
                          ELSE None,
                  !.macd_bullish = ml[1][n] > ml[2][n],
                  !.above_ema20 = close[n] > ema20[n],
                  !.above_ema50 = close[n] > ema50[n]]

RECURSIVE Sum(_)
Sum(vals) == IF vals = <<>> THEN 0 ELSE Head(vals) + Sum(Tail(vals))

\* cur_vol / avg_vol without the test of avg_vol
VolumeSpike_NoZeroGuard(s, d, tieUp) ==
    LET volume == d.volume
        n == Len(volume)
    IN  IF n >= VOLUME_WINDOW
        THEN LET total == Sum(SubSeq(volume, n - VOLUME_WINDOW + 1, n))
                 cur_vol == volume[n]
             IN  IF total = 0 THEN [s EXCEPT !.error = Some("float division by zero")]
                 ELSE LET ratio == Round(cur_vol * VOLUME_WINDOW * 100, total, tieUp)
                      IN  [s EXCEPT !.volume_ratio = Some(ratio),
                                    !.volume_spike = ratio >= VOLUME_SPIKE_MULTIPLIER]
        ELSE s

\* the average taken over the VOLUME_WINDOW bars before the current one
VolumeSpike_ExcludesLast(s, d, tieUp) ==
    LET volume == d.volume
        n == Len(volume)
    IN  IF n > VOLUME_WINDOW
        THEN LET total == Sum(SubSeq(volume, n - VOLUME_WINDOW, n - 1))
                 cur_vol == volume[n]
                 ratio == IF total # 0
                          THEN Some(Round(cur_vol * VOLUME_WINDOW * 100, total, tieUp))
                          ELSE None
             IN  [s EXCEPT !.volume_ratio = ratio,
                           !.volume_spike = /\ IsSome(ratio)
                                            /\ Val(ratio) # 0
                                            /\ Val(ratio) >= VOLUME_SPIKE_MULTIPLIER]
        ELSE s

\* lines 189-195, volume spike; avg_vol is Sum / VOLUME_WINDOW
VolumeSpike(s, d, tieUp) ==
    LET volume == d.volume
        n == Len(volume)
    IN  IF n >= VOLUME_WINDOW
        THEN LET total == Sum(SubSeq(volume, n - VOLUME_WINDOW + 1, n))
                 cur_vol == volume[n]
                 ratio == IF total # 0
                          THEN Some(Round(cur_vol * VOLUME_WINDOW * 100, total, tieUp))
                          ELSE None
             IN  [s EXCEPT !.volume_ratio = ratio,
                           !.volume_spike = /\ IsSome(ratio)
                                            /\ Val(ratio) # 0
                                            /\ Val(ratio) >= VOLUME_SPIKE_MULTIPLIER]
        ELSE s

Count(b) == IF b THEN 1 ELSE 0

BullishCount_RsiInclusive(s) ==
    Count(s.macd_bullish) + Count(s.above_ema20) + Count(s.above_ema50)
    + Count(s.volume_spike)
    + Count(IsSome(s.rsi) /\ RSI_BULLISH_ZONE * 10 <= Val(s.rsi)
                          /\ Val(s.rsi) <= RSI_OVERBOUGHT * 10)

\* lines 203-209; sig.rsi is in tenths
BullishCount(s) ==
    Count(s.macd_bullish) + Count(s.above_ema20) + Count(s.above_ema50)
    + Count(s.volume_spike)
    + Count(IsSome(s.rsi) /\ RSI_BULLISH_ZONE * 10 <= Val(s.rsi)
                          /\ Val(s.rsi) < RSI_OVERBOUGHT * 10)

With(s, signal, emoji) == [s EXCEPT !.overall_signal = signal, !.signal_emoji = emoji]

\* lines 211-225
FullSignal(s) ==
    LET bullish_count == BullishCount(s)
    IN  IF bullish_count >= 4 THEN With(s, "STRONG BUY", "green")
        ELSE IF bullish_count = 3 THEN With(s, "BUY", "green")
        ELSE IF bullish_count = 2 THEN With(s, "WATCH", "yellow")
        ELSE IF bullish_count = 1 THEN With(s, "NEUTRAL", "white")
        ELSE With(s, "CAUTION", "red")

LimitedSignal_TintsGain(s) ==
    IF IsSome(s.change_pct)
    THEN IF Val(s.change_pct) > 200 THEN With(s, "WATCH", "yellow")
         ELSE IF Val(s.change_pct) > 0 THEN With(s, "NEUTRAL", "green")
         ELSE IF Val(s.change_pct) > -200 THEN With(s, "NEUTRAL", "white")
         ELSE With(s, "CAUTION", "red")
    ELSE With(s, "NEUTRAL", "white")

\* lines 227-243; sig.change_pct is in hundredths of a percent
LimitedSignal(s) ==
    IF IsSome(s.change_pct)
    THEN IF Val(s.change_pct) > 200 THEN With(s, "WATCH", "yellow")
         ELSE IF Val(s.change_pct) > 0 THEN With(s, "NEUTRAL", "white")
         ELSE IF Val(s.change_pct) > -200 THEN With(s, "NEUTRAL", "white")
         ELSE With(s, "CAUTION", "red")
    ELSE With(s, "NEUTRAL", "white")

\* lines 200-243
Composite(s, d) == IF Bars(d) >= FULL_BARS THEN FullSignal(s) ELSE LimitedSignal(s)

\* Python truth value of an Optional[float]
Truthy(x) == IsSome(x) /\ Val(x) # 0

AppendIf(notes, cond, note) == IF cond THEN Append(notes, note) ELSE notes

\* lines 246-253
Notes(s) ==
    LET n1 == AppendIf(s.notes, Truthy(s.rsi) /\ Val(s.rsi) < RSI_OVERSOLD * 10, "RSI oversold")
        n2 == AppendIf(n1, Truthy(s.rsi) /\ Val(s.rsi) > RSI_OVERBOUGHT * 10, "RSI overbought")
        n3 == AppendIf(n2, s.volume_spike, "Volume spike")
        n4 == AppendIf(n3, ~s.above_ema50 /\ s.above_ema20, "50 EMA reclaim attempt")
    IN  [s EXCEPT !.notes = n4]

\* except Exception as e: sig.error = str(e), lines 255-257
Failed(s, e) == [s EXCEPT !.error = Some(e)]

\* TechnicalAnalyzer.analyse
analyse(ticker, d, tieUp) ==
    LET s0 == StockSignal(ticker)
    IN  IF Bars(d) < 1 THEN NoData(s0)
        ELSE IF d.closeCol = "missing" THEN Failed(s0, "'Close'")
        ELSE IF d.volumeCol = "missing" THEN Failed(s0, "'Volume'")
        ELSE IF d.closeCol = "bad" THEN Failed(s0, "could not convert string to float")
        ELSE LET s1 == PriceAction(s0, d, tieUp)
             IN  IF Bars(d) >= FULL_BARS
                 THEN LET s2 == Indicators(s1, d, tieUp)
                      IN  IF d.volumeCol = "bad"
                          THEN Failed(s2, "unsupported operand type")
                          ELSE Notes(Composite(VolumeSpike(s2, d, tieUp), d))
                 ELSE Notes(Composite([s1 EXCEPT !.notes = Append(@, "Limited data")], d))

(***************************************************************************)
(* Frames handed to analyse.  A series starts at BasePrice, moves by the   *)
(* steps of a cycle and ends with one free step; the volume is flat but    *)
(* for the last bar.                                                       *)
(***************************************************************************)
ShortBars == 3
LongBars == 31
BasePrice == 25 * 1000

Cycles == { <<0>>, <<100>>, <<-500>>, <<300, -300>>, <<200, -300>>, <<0, 100>>,
            <<200, -200>>, <<-1000, 300>>, <<-100, -200>>, <<0, 300>> }

LastSteps == {-2000, -500, -499, 0, 100, 499, 500, 2000}

\* <<volume of every bar but the last, volume of the last bar>>
VolumePairs == { <<0, 0>>, <<0, 370>>, <<370, 370>>, <<370, 567>>, <<370, 569>>,
                 <<370, 570>>, <<370, 1000>> }

RECURSIVE Walk(_, _)
Walk(n, cyc) ==
    IF n = 0 THEN <<>>
    ELSE IF n = 1 THEN <<BasePrice>>
    ELSE LET prev == Walk(n - 1, cyc)
             step == cyc[((n - 2) % Len(cyc)) + 1]
         IN  Append(prev, prev[n - 1] + step)

Series(n, cyc, last) ==
    IF n < 2 THEN Walk(n, cyc)
    ELSE LET prev == Walk(n - 1, cyc)
         IN  Append(prev, prev[n - 1] + last)

\* <<state of the Close column, state of the Volume column>>
Defects == { <<"ok", "ok">>, <<"missing", "ok">>, <<"bad", "ok">>,
             <<"ok", "missing">>, <<"ok", "bad">> }

Frame(n, cyc, last, vols, defect) ==
    [close |-> Series(n, cyc, last),
     volume |-> [i \in 1..n |-> IF i = n THEN vols[2] ELSE vols[1]],
     closeCol |-> defect[1], volumeCol |-> defect[2]]

ShortFrames ==
    {Frame(n, <<0>>, last, vols, defect) :
        n \in (0..ShortBars) \cup {FULL_BARS - 1}, last \in LastSteps,
        vols \in {<<370, 370>>, <<370, 1000>>}, defect \in Defects}

LongFrames ==
    {Frame(n, cyc, last, vols, defect) :
        n \in FULL_BARS..LongBars, cyc \in Cycles, last \in LastSteps,
        vols \in VolumePairs, defect \in {<<"ok", "ok">>, <<"ok", "bad">>}}

\* uptrends of 60 bars: k steps of a, then steps of b (thousandths of a rupee)
Ramp(n, k, a, b) ==
    [i \in 1..n |-> BasePrice + a * (IF i - 1 <= k THEN i - 1 ELSE k)
                              + b * (IF i - 1 <= k THEN 0 ELSE i - 1 - k)]

Plain(close, volume) ==
    [close |-> close, volume |-> volume, closeCol |-> "ok", volumeCol |-> "ok"]

TrendFrames ==
    {Plain(Ramp(60, k, a, b), [i \in 1..60 |-> 370]) :
        k \in {0, 40, 58}, a \in {1, 100, 400}, b \in {1, 100, 400}}
    \cup {Frame(60, cyc, 100, <<370, 370>>, <<"ok", "ok">>) : cyc \in {<<100, 300>>, <<400, 1>>}}

\* FULL_BARS bars of one price and one volume
FlatFrames ==
    {Plain([i \in 1..FULL_BARS |-> p], [i \in 1..FULL_BARS |-> v]) :
        p \in {1, 3333, 160000}, v \in {0, 1, 370}}

\* 120 daily bars, closes rising linearly from 100 to 160 rupees (to the
\* nearest thousandth), volume 1,000,000 but 2,000,000 on the last bar
\* (volumes of this frame in thousands of shares)
ScenarioFrame ==
    Plain([i \in 1..120 |-> 100000 + Nearest(60000 * (i - 1), 119)],
          [i \in 1..120 |-> IF i = 120 THEN 2000 ELSE 1000])

Tickers == {"RELIANCE", "NATCOPHARM"}

Init ==
    /\ pc = "call"
    /\ symbol \in Tickers
    /\ df \in ShortFrames \cup LongFrames \cup TrendFrames \cup FlatFrames \cup {ScenarioFrame}
    /\ sig = Unset
    /\ heap = <<>>
    /\ ReportUnset
    /\ client = FALSE
    /\ nseUp = NoCall
    /\ yfUp = NoCall
    /\ queried = <<>>
    /\ result = Unset
    /\ escaped = FALSE

\* signal = analyzer.analyse(ticker, data)
Analyse ==
    /\ pc = "call"
    /\ \E tieUp \in BOOLEAN : sig' = analyse(symbol, df, tieUp)
    /\ pc' = "returned"
    /\ UNCHANGED <<symbol, df, client, nseUp, yfUp, queried, result, escaped, heap>>
    /\ ReportIdle

Next == Analyse

Spec == Init /\ [][Next]_vars

(***************************************************************************)
(* Repeated calls of analyse.  A StockSignal holds its notes by reference: *)
(* heap[r] is the content of the list object r, and a caller that reads a  *)
(* Signal reads its notes through heap.  result logs the calls.            *)
(***************************************************************************)
MaxCalls == 3

\* a class-level list, the same object for every StockSignal
NewList_Shared(h) == 1

\* notes: list = field(default_factory=list): every StockSignal gets a list
\* object of its own
NewList(h) == Len(h) + 1

\* TechnicalAnalyzer has no attributes: two instances differ by identity only
Instances == {1, 2}

PureFrames ==
    { Frame(2, <<0>>, 100, <<370, 370>>, <<"ok", "ok">>),
      Frame(FULL_BARS, <<300, -300>>, 2000, <<370, 1000>>, <<"ok", "ok">>) }

\* the Signal a caller holding the result of call c reads now
Deref(c) == [c.seen EXCEPT !.notes = heap[c.ref]]

InitPure ==
    /\ pc = "call"
    /\ symbol = ""
    /\ client = FALSE
    /\ nseUp = NoCall
    /\ yfUp = NoCall
    /\ queried = <<>>
    /\ result = <<>>
    /\ escaped = FALSE
    /\ df = Unset
    /\ sig = Unset
    /\ heap = <<>>
    /\ ReportUnset

\* analyzer.analyse(ticker, data) on some instance; the float roundings of a
\* series are the same on every call
AnalyseCall ==
    /\ pc = "call"
    /\ Len(result) < MaxCalls
    /\ \E inst \in Instances, t \in Tickers, d \in PureFrames, tieUp \in BOOLEAN :
          /\ \A i \in 1..Len(result) : result[i].tieUp = tieUp
          /\ LET ref == NewList(heap)
                 s == analyse(t, d, tieUp)
                 held == IF ref > Len(heap) THEN Append(heap, <<>>) ELSE heap
                 after == [held EXCEPT ![ref] = @ \o s.notes]
                 seen == [s EXCEPT !.notes = after[ref]]
             IN  /\ heap' = after
                 /\ sig' = seen
                 /\ result' = Append(result, [inst |-> inst, ticker |-> t, frame |-> d,
                                              tieUp |-> tieUp, ref |-> ref, seen |-> seen])
                 /\ symbol' = t
                 /\ df' = d
    /\ UNCHANGED <<pc, client, nseUp, yfUp, queried, escaped>>
    /\ ReportIdle

NextPure == AnalyseCall

SpecPure == InitPure /\ [][NextPure]_vars

(***************************************************************************)
(* The stock loop of build_and_send_report (bot.py): for every tracked     *)
(* ticker, get_ohlcv then analyse, the Signal appended to stock_signals.   *)
(* result is stock_signals, df the data of the ticker being processed.     *)
(***************************************************************************)
\* what a provider can answer in the loop: a two-bar payload in descending
\* date order, a payload without Close, a payload without Volume, nothing
BatchFrames ==
    { [rows |-> << [date |-> 2, close |-> 2, volume |-> 1],
                   [date |-> 1, close |-> 1, volume |-> 1] >>, cols |-> OHLCV],
      [rows |-> << [date |-> 1, close |-> 1, volume |-> 1] >>, cols |-> OHLCV \ {"Close"}],
      [rows |-> << [date |-> 1, close |-> 2, volume |-> 0] >>, cols |-> OHLC],
      EmptyFrame }

BatchUpstream == {[kind |-> "raise"]} \cup {[kind |-> "frame", frame |-> f] : f \in BatchFrames}

\* _fetch_ohlcv as one call: what it hands to get_ohlcv's caller
fetch_ohlcv(cl, nse, yf) ==
    LET a == NseAttempt(cl, nse)
    IN  IF a.raised \/ a.hit THEN a
        ELSE LET b == YfAttempt(yf)
             IN  IF b.raised \/ b.hit THEN b
                 ELSE [raised |-> FALSE, hit |-> FALSE, frame |-> EmptyFrame]

\* close = df["Close"], volume = df["Volume"]: what analyse reads from the
\* frame a provider delivered; the payload's closes are rupees
Data(f) ==
    [close |-> [i \in 1..Len(f.rows) |-> f.rows[i].close * 1000],
     volume |-> [i \in 1..Len(f.rows) |-> f.rows[i].volume],
     closeCol |-> IF "Close" \in f.cols \/ IsEmpty(f) THEN "ok" ELSE "missing",
     volumeCol |-> IF "Volume" \in f.cols \/ IsEmpty(f) THEN "ok" ELSE "missing"]

InitBatch ==
    /\ pc = "fetch"
    /\ symbol = ""
    /\ client \in BOOLEAN
    /\ nseUp = NoCall
    /\ yfUp = NoCall
    /\ queried = <<>>
    /\ result = <<>>
    /\ escaped = FALSE
    /\ df = Unset
    /\ sig = Unset
    /\ heap = <<>>
    /\ ReportUnset

\* data = await fetcher.get_ohlcv(ticker); an exception leaving it ends the
\* loop in the handler of build_and_send_report
BatchGetOhlcv ==
    /\ pc = "fetch"
    /\ Len(result) < Len(TRACKED_STOCKS)
    /\ symbol' = TRACKED_STOCKS[Len(result) + 1]
    /\ \E nse \in BatchUpstream, yf \in BatchUpstream :
          LET r == fetch_ohlcv(client, nse, yf)
              first == NseAttempt(client, nse)
              fallback == ~first.raised /\ ~first.hit
          IN  /\ nseUp' = (IF client THEN nse ELSE NoCall)
              /\ yfUp' = (IF fallback THEN yf ELSE NoCall)
              /\ queried' = (IF fallback THEN <<"NSE", "YF">> ELSE <<"NSE">>)
              /\ escaped' = r.raised
              /\ IF r.raised THEN pc' = "failed" /\ df' = Unset
                 ELSE pc' = "analyse" /\ df' = Data(r.frame)
    /\ UNCHANGED <<client, result, sig, heap>>
    /\ ReportIdle

\* signal = analyzer.analyse(ticker, data); stock_signals.append(signal)
BatchAnalyse ==
    /\ pc = "analyse"
    /\ \E tieUp \in BOOLEAN :
          /\ sig' = analyse(symbol, df, tieUp)
          /\ result' = Append(result, sig')
    /\ pc' = "fetch"
    /\ UNCHANGED <<symbol, client, nseUp, yfUp, queried, escaped, df, heap>>
    /\ ReportIdle

\* the for loop is exhausted: the builder goes on to the headlines
BatchEnd ==
    /\ pc = "fetch"
    /\ Len(result) = Len(TRACKED_STOCKS)
    /\ pc' = "done"
    /\ UNCHANGED <<symbol, client, nseUp, yfUp, queried, result, escaped, df, sig, heap>>
    /\ ReportIdle

NextBatch == BatchGetOhlcv \/ BatchAnalyse \/ BatchEnd

SpecBatch == InitBatch /\ [][NextBatch]_vars

(***************************************************************************)
(* Properties of analyse (specification Spec)                              *)
(***************************************************************************)
Returned_ == pc = "returned"

WellFormed(d) == d.closeCol = "ok" /\ d.volumeCol = "ok"

IndicatorDefaults(s) ==
    /\ s.rsi = None
    /\ ~s.macd_bullish
    /\ ~s.above_ema20
    /\ ~s.above_ema50
    /\ ~s.volume_spike

LastClose(d) == d.close[Len(d.close)]

HasNote(s, note) == \E i \in 1..Len(s.notes) : s.notes[i] = note

\* C4: every Signal returned by analyse has error set if and only if
\* overall_signal is NO DATA and all indicator fields hold their defaults,
\* also when an exception interrupts the computation on a non-empty series.
C4_ErrorIffNoData ==
    Returned_ =>
        (IsSome(sig.error) <=> (sig.overall_signal = "NO DATA" /\ IndicatorDefaults(sig)))

\* C5: analyse on an empty series returns overall_signal NO DATA, error
\* "Insufficient data", no current price, no change_pct and every indicator
\* field at its default, whatever the ticker.
C5_EmptySeries ==
    (Returned_ /\ Bars(df) = 0) =>
        /\ sig.overall_signal = "NO DATA"
        /\ sig.error = Some("Insufficient data")
        /\ sig.cmp = None
        /\ sig.change_pct = None
        /\ sig.volume_ratio = None
        /\ IndicatorDefaults(sig)

C5_Witness ==
    /\ Returned_
    /\ Bars(df) = 0
    /\ symbol = "NATCOPHARM"
    /\ sig.overall_signal = "NO DATA"

Degraded == Returned_ /\ WellFormed(df) /\ Bars(df) >= 1 /\ Bars(df) < FULL_BARS

\* what C6 says of every field but the current price
C6_Skipped ==
    /\ sig.error = None
    /\ sig.volume_ratio = None
    /\ IndicatorDefaults(sig)
    /\ (IsSome(sig.change_pct) <=> Bars(df) >= 2)
    /\ (Bars(df) >= 2 => HasNote(sig, "Limited data"))

\* C6 as stated: on a well-formed series of 1 to 29 bars the indicator suite
\* is skipped and current_price equals the last close.
C6_Original ==
    Degraded => (C6_Skipped /\ IsSome(sig.cmp) /\ Val(sig.cmp) * 10 = LastClose(df))

\* C6 as amended: on a well-formed series of 1 to 29 bars the indicator suite
\* is skipped (error None, rsi None, volume_ratio None, the four booleans
\* False, change_pct set exactly from 2 bars on, the "Limited data" note for
\* 2 to 29 bars) and current_price is the last close rounded to two decimals,
\* so within half a hundredth of it.
C6_LimitedData ==
    Degraded =>
        /\ C6_Skipped
        /\ IsSome(sig.cmp)
        /\ Val(sig.cmp) * 10 - LastClose(df) <= 5
        /\ LastClose(df) - Val(sig.cmp) * 10 <= 5

C6_Witness ==
    /\ Degraded
    /\ Bars(df) = FULL_BARS - 1
    /\ LastClose(df) % 10 # 0
    /\ IsSome(sig.change_pct)
    /\ HasNote(sig, "Limited data")

\* C7: on the degraded path overall_signal is WATCH iff change_pct > 2,
\* CAUTION iff change_pct < -2, and NEUTRAL for every change_pct in the
\* closed range -2..2 and for a missing change_pct.
C7_DegradedHeuristic ==
    Degraded =>
        /\ (sig.overall_signal = "WATCH" <=> (IsSome(sig.change_pct) /\ Val(sig.change_pct) > 200))
        /\ (sig.overall_signal = "CAUTION" <=> (IsSome(sig.change_pct) /\ Val(sig.change_pct) < -200))
        /\ ((sig.change_pct = None \/ (Val(sig.change_pct) >= -200 /\ Val(sig.change_pct) <= 200))
                => sig.overall_signal = "NEUTRAL")

FullPath == Returned_ /\ Bars(df) >= FULL_BARS /\ sig.error = None

\* the votes of C8, read off the returned Signal
C8_Votes ==
    Cardinality({v \in {"macd", "ema_short", "ema_long", "volume", "rsi"} :
        \/ v = "macd" /\ sig.macd_bullish
        \/ v = "ema_short" /\ sig.above_ema20
        \/ v = "ema_long" /\ sig.above_ema50
        \/ v = "volume" /\ sig.volume_spike
        \/ v = "rsi" /\ IsSome(sig.rsi) /\ Val(sig.rsi) >= 500 /\ Val(sig.rsi) < 700})

\* C8: on the full-data path overall_signal is determined by the number n of
\* true votes among macd_bullish, above_ema_short, above_ema_long,
\* volume_spike and (rsi set and 50 <= rsi < 70): n >= 4 STRONG BUY, 3 BUY,
\* 2 WATCH, 1 NEUTRAL, 0 CAUTION; rsi = 70 or a missing rsi is no vote.
C8_CompositeVotes ==
    FullPath =>
        sig.overall_signal =
            (IF C8_Votes >= 4 THEN "STRONG BUY"
             ELSE IF C8_Votes = 3 THEN "BUY"
             ELSE IF C8_Votes = 2 THEN "WATCH"
             ELSE IF C8_Votes = 1 THEN "NEUTRAL"
             ELSE "CAUTION")

C8_Witness ==
    /\ FullPath
    /\ sig.rsi = Some(700)
    /\ sig.macd_bullish /\ sig.above_ema20 /\ sig.above_ema50 /\ ~sig.volume_spike
    /\ sig.overall_signal = "BUY"

\* C9: in every Signal returned without error each advisory note is present
\* exactly when its condition holds on the Signal's fields: oversold iff rsi
\* set and rsi < 40 (rsi = 0 included), overbought iff rsi set and rsi > 70,
\* the volume note iff volume_spike, the long-EMA reclaim note iff
\* above_ema_short and not above_ema_long.
C9_AdvisoryNotes ==
    (Returned_ /\ sig.error = None) =>
        /\ (HasNote(sig, "RSI oversold") <=> (IsSome(sig.rsi) /\ Val(sig.rsi) < 400))
        /\ (HasNote(sig, "RSI overbought") <=> (IsSome(sig.rsi) /\ Val(sig.rsi) > 700))
        /\ (HasNote(sig, "Volume spike") <=> sig.volume_spike)
        /\ (HasNote(sig, "50 EMA reclaim attempt") <=> (sig.above_ema20 /\ ~sig.above_ema50))

\* the last VOLUME_WINDOW volumes of the analysed frame
C10_Total == Sum(SubSeq(df.volume, Bars(df) - VOLUME_WINDOW + 1, Bars(df)))
C10_Current == df.volume[Bars(df)]

\* C10: on the full-data path volume_ratio is None when the mean of the last
\* 20 volumes is 0; otherwise it equals currentVol / avgVol exactly and
\* volume_spike holds iff that ratio is >= 1.5.  (avgVol = total / 20, the
\* ratio is kept in hundredths.)
C10_VolumeRatioExact ==
    (FullPath /\ WellFormed(df)) =>
        IF C10_Total = 0 THEN sig.volume_ratio = None
        ELSE /\ IsSome(sig.volume_ratio)
             /\ Val(sig.volume_ratio) * C10_Total = C10_Current * VOLUME_WINDOW * 100
             /\ (sig.volume_spike <=>
                    C10_Current * VOLUME_WINDOW * 100 >= VOLUME_SPIKE_MULTIPLIER * C10_Total)

NonDecreasing(close) == \A i \in 1..(Len(close) - 1) : close[i] <= close[i + 1]

\* C11: on every series of at least 30 bars whose closes never decrease
\* (average loss 0) analyse leaves rsi unset, not 100, and ends without an
\* error; whenever rsi is set it lies in 0..100 (sig.rsi is in tenths).
C11_RsiUndefined ==
    Returned_ =>
        /\ (Bars(df) >= FULL_BARS /\ df.closeCol = "ok" /\ NonDecreasing(df.close)) =>
               /\ sig.rsi = None
               /\ (WellFormed(df) => sig.error = None)
        /\ (IsSome(sig.rsi) => (Val(sig.rsi) >= 0 /\ Val(sig.rsi) <= 100 * 10))

C11_Witness ==
    /\ FullPath
    /\ WellFormed(df)
    /\ NonDecreasing(df.close)
    /\ df.close[1] < LastClose(df)
    /\ sig.rsi = None
    /\ sig.above_ema20

StrictlyIncreasing(close) == \A i \in 1..(Len(close) - 1) : close[i] < close[i + 1]

\* the rise per bar never gets smaller
StepsNeverShrink(close) ==
    \A i \in 2..(Len(close) - 1) : close[i] - close[i - 1] <= close[i + 1] - close[i]

Uptrend == Returned_ /\ WellFormed(df) /\ Bars(df) = 60 /\ StrictlyIncreasing(df.close)

\* C17 as stated: on every series of 60 bars with strictly increasing closes
\* above_ema_short, above_ema_long and macd_bullish are all True.
C17_Original ==
    Uptrend => (sig.above_ema20 /\ sig.above_ema50 /\ sig.macd_bullish)

\* C17 as amended: on every series of 60 bars with strictly increasing closes
\* above_ema_short and above_ema_long are True; macd_bullish is True when the
\* rise per bar never shrinks (a linear rise included).
C17_Uptrend ==
    Uptrend =>
        /\ sig.above_ema20
        /\ sig.above_ema50
        /\ (StepsNeverShrink(df.close) => sig.macd_bullish)

C17_Witness ==
    /\ Uptrend
    /\ StepsNeverShrink(df.close)
    /\ df.close[2] - df.close[1] < LastClose(df) - df.close[Bars(df) - 1]
    /\ sig.macd_bullish
    /\ sig.above_ema50

IsFlat(d) ==
    /\ \A i \in 1..Bars(d) : d.close[i] = d.close[1]
    /\ \A i \in 1..Bars(d) : d.volume[i] = d.volume[1]

\* C18: on a series of exactly 30 bars that all have the same close p > 0
\* and the same volume v >= 0 (v = 0 included) analyse returns without
\* error, rsi unset, macd_bullish, above_ema_short, above_ema_long and
\* volume_spike False, and overall_signal NEUTRAL or CAUTION.
C18_FlatSeries ==
    (Returned_ /\ WellFormed(df) /\ Bars(df) = FULL_BARS /\ IsFlat(df)) =>
        /\ sig.error = None
        /\ IndicatorDefaults(sig)
        /\ sig.overall_signal \in {"NEUTRAL", "CAUTION"}

C18_Witness ==
    /\ Returned_
    /\ WellFormed(df)
    /\ Bars(df) = FULL_BARS
    /\ IsFlat(df)
    /\ df.volume[1] = 0
    /\ df.close[1] = 1
    /\ sig.volume_ratio = None
    /\ sig.overall_signal = "CAUTION"

C19_Verdicts ==
    /\ sig.error = None
    /\ sig.volume_spike
    /\ sig.above_ema20
    /\ sig.above_ema50
    /\ sig.macd_bullish
    /\ sig.overall_signal = "STRONG BUY"

\* C19 as stated: on the 120-bar series rising linearly from 100 to 160 with
\* volume 1,000,000 but 2,000,000 on the last bar, volume_ratio is about 2.0
\* (2.0 to one decimal; the ratio is in hundredths), volume_spike,
\* above_ema_short, above_ema_long and macd_bullish are True and
\* overall_signal is STRONG BUY.
C19_Original ==
    (Returned_ /\ df = ScenarioFrame) =>
        /\ C19_Verdicts
        /\ IsSome(sig.volume_ratio)
        /\ Val(sig.volume_ratio) >= 195
        /\ Val(sig.volume_ratio) < 205

\* C19 as amended: on that series volume_ratio is 1.9 (2,000,000 over the
\* mean 1,050,000 of the last 20 volumes, the last bar included), and the
\* verdicts are as stated.
C19_Scenario ==
    (Returned_ /\ df = ScenarioFrame) =>
        /\ C19_Verdicts
        /\ sig.volume_ratio = Some(190)

C19_Witness ==
    /\ Returned_
    /\ df = ScenarioFrame
    /\ sig.rsi = None
    /\ HasNote(sig, "Volume spike")
    /\ sig.overall_signal = "STRONG BUY"

\* the tag that goes with each verdict
EmojiOf ==
    [o \in {"NO DATA", "STRONG BUY", "BUY", "WATCH", "NEUTRAL", "CAUTION"} |->
        CASE o = "NO DATA" -> "question"
          [] o \in {"STRONG BUY", "BUY"} -> "green"
          [] o = "WATCH" -> "yellow"
          [] o = "NEUTRAL" -> "white"
          [] o = "CAUTION" -> "red"]

\* C21: on every path of analyse (no data, limited data, full analysis,
\* exception) the returned signal_emoji is determined by the returned
\* overall_signal alone: any two returned Signals with the same
\* overall_signal carry the same signal_emoji.
C21_EmojiFollowsSignal ==
    Returned_ =>
        /\ sig.overall_signal \in DOMAIN EmojiOf
        /\ sig.signal_emoji = EmojiOf[sig.overall_signal]

\* the exception path after the indicators: the verdict and the tag are
\* the defaults of the dataclass
C21_Witness ==
    /\ Returned_
    /\ Bars(df) >= FULL_BARS
    /\ df.volumeCol = "bad"
    /\ IsSome(sig.error)
    /\ sig.overall_signal = "NEUTRAL"
    /\ sig.signal_emoji = "white"

\* C25: a Signal analyse returns with error = None has its current price
\* (cmp) set.
C25_PriceWithoutError ==
    (Returned_ /\ sig.error = None) => IsSome(sig.cmp)

\* a single bar: no change, no indicator, but a price
C25_Witness ==
    /\ Returned_
    /\ Bars(df) = 1
    /\ sig.error = None
    /\ IsSome(sig.cmp)
    /\ sig.change_pct = None

(***************************************************************************)
(* Properties of the stock loop (specification SpecBatch)                  *)
(***************************************************************************)
\* the ticker last appended failed: no provider delivered bars, or analyse
\* could not read the frame
LastFailed == Bars(df) = 0 \/ ~WellFormed(df)

\* C12: a failure while fetching or analysing one ticker never aborts the
\* batch: whatever the providers answer, the loop ends with exactly one
\* Signal per tracked ticker, in watchlist order, and a ticker's failure is
\* recorded in its own Signal.error (and in no other Signal).
C12_BatchCompletes ==
    /\ ~escaped
    /\ pc # "failed"
    /\ Len(result) <= Len(TRACKED_STOCKS)
    /\ \A i \in 1..Len(result) : result[i].ticker = TRACKED_STOCKS[i]
    /\ (pc = "done" => Len(result) = Len(TRACKED_STOCKS))
    /\ ((pc \in {"fetch", "done"} /\ result # <<>>) =>
           /\ result[Len(result)] = sig
           /\ sig.ticker = symbol
           /\ (IsSome(sig.error) <=> LastFailed))

C12_Witness ==
    /\ pc = "done"
    /\ Len(result) = Len(TRACKED_STOCKS)
    /\ result[1].error = Some("Insufficient data")
    /\ result[2].error = Some("'Close'")
    /\ result[3].error = None
    /\ result[4].error = Some("'Volume'")
    /\ result[5].error = None

(***************************************************************************)
(* Properties of repeated calls (specification SpecPure)                   *)
(***************************************************************************)
\* C16: analyse is a pure function of (ticker, series): two calls with the
\* same ticker and series, on the same or on different analyser instances
\* and with other calls in between, return Signals equal in every field,
\* notes included, and what an earlier caller holds is not changed by a
\* later call (notes neither accumulate nor are shared).
C16_Pure ==
    \A i, j \in 1..Len(result) :
        (result[i].ticker = result[j].ticker /\ result[i].frame = result[j].frame) =>
            /\ result[i].seen = result[j].seen
            /\ Deref(result[i]) = result[i].seen
            /\ Deref(result[i]) = Deref(result[j])

C16_Witness ==
    /\ Len(result) = MaxCalls
    /\ result[1].frame = result[MaxCalls].frame
    /\ result[1].ticker = result[MaxCalls].ticker
    /\ result[1].inst # result[MaxCalls].inst
    /\ result[2].frame # result[1].frame
    /\ result[1].seen.notes # <<>>
    /\ result[1].seen = result[MaxCalls].seen

(***************************************************************************)
(* Index snapshots: NSEDataFetcher.get_index_data and                      *)
(* MarketDataFetcher._fetch_indices                                        *)
(***************************************************************************)
IndexCloses == {20000, 40000}

\* NSE index payload: rows (index date, close) and the name of the close
\* column, "" when there is none
NseIndexFrames ==
    {[rows |-> r, closeName |-> "Close"] :
        r \in SeqsUpTo([date : 1..MaxDate, close : IndexCloses], MaxRows)}
    \cup {[rows |-> << [date |-> 2, close |-> 40000], [date |-> 1, close |-> 20000] >>,
           closeName |-> c] : c \in {"close", ""}}

\* yfinance index payload: the closes in the order sent, and whether the
\* Close column is there
YfIndexFrames ==
    {[closes |-> c, hasClose |-> TRUE] : c \in SeqsUpTo(IndexCloses, MaxRows)}
    \cup {[closes |-> <<20000, 40000>>, hasClose |-> FALSE]}

NseIndexUpstream ==
    {[kind |-> "raise"], [kind |-> "none"]} \cup {[kind |-> "frame", frame |-> f] : f \in NseIndexFrames}

YfIndexUpstream ==
    {[kind |-> "raise"], [kind |-> "none"]} \cup {[kind |-> "frame", frame |-> f] : f \in YfIndexFrames}

NoSnapshot == [price |-> None, change_pct |-> None, trend |-> "-"]

\* {"price": round(close_today, 2), "change_pct": round(change_pct, 2), "trend": ...}
Snapshot(close_today, close_prev, tieUp) ==
    [price |-> Some(Round(close_today, 10, tieUp)),
     change_pct |-> Some(Round((close_today - close_prev) * 10000, close_prev, tieUp)),
     trend |-> IF close_today - close_prev >= 0 THEN "up" ELSE "down"]

Gave(snap) == [raised |-> FALSE, snap |-> snap]
Threw == [raised |-> TRUE, snap |-> NoSnapshot]

\* get_index_data(index_display_name, yf_ticker), lines 88-130
get_index_data(index_display_name, yf_ticker, cl, up, tieUp) ==
    IF ~cl THEN Gave(NoSnapshot)
    ELSE IF index_display_name \notin NSE_INDEX_SYMBOLS THEN Gave(NoSnapshot)
    ELSE IF up.kind = "raise" THEN Gave(NoSnapshot)
    ELSE IF up.kind = "none" THEN Gave(NoSnapshot)
    ELSE IF Len(up.frame.rows) < 2 THEN Gave(NoSnapshot)
    ELSE LET sorted == SortIndex(up.frame.rows)
             n == Len(sorted)
         IN  IF up.frame.closeName = "" THEN Gave(NoSnapshot)          \* KeyError, caught
             ELSE IF sorted[n - 1].close = 0 THEN Gave(NoSnapshot)     \* ZeroDivisionError, caught
             ELSE Gave(Snapshot(sorted[n].close, sorted[n - 1].close, tieUp))

\* a call of get_index_data with the positional arguments args: Python
\* raises TypeError before the body runs unless both parameters are bound
CallGetIndexData(args, cl, up, tieUp) ==
    IF Len(args) # 2 THEN Threw
    ELSE get_index_data(args[1], args[2], cl, up, tieUp)

\* lines 91-98: nse_data = self.nse_fetcher.get_index_data(ticker)
NseIndexAttempt(name, ticker, cl, up, tieUp) ==
    LET r == CallGetIndexData(<<ticker>>, cl, up, tieUp)
    IN  IF r.raised THEN [hit |-> FALSE, snap |-> NoSnapshot]
        ELSE [hit |-> IsSome(r.snap.price), snap |-> r.snap]

\* lines 102-126: the yfinance fallback of one index
YfIndexAttempt(up, tieUp) ==
    IF up.kind = "raise" \/ up.kind = "none" THEN NoSnapshot
    ELSE LET closes == up.frame.closes
             n == Len(closes)
         IN  IF n >= 2
             THEN IF ~up.frame.hasClose THEN NoSnapshot            \* KeyError, caught
                  ELSE IF closes[n - 1] = 0 THEN NoSnapshot        \* ZeroDivisionError, caught
                  ELSE Snapshot(closes[n], closes[n - 1], tieUp)
             ELSE NoSnapshot

IndexName(i) == INDICES[i][1]
IndexTicker(i) == INDICES[i][2]

\* position in INDICES of the index being fetched
Current == Len(result) + 1

InitIndices ==
    /\ pc = "nse"
    /\ symbol = IndexName(1)
    /\ client \in BOOLEAN
    /\ nseUp = NoCall
    /\ yfUp = NoCall
    /\ queried = <<>>
    /\ result = <<>>
    /\ escaped = FALSE
    /\ df = Unset
    /\ sig = Unset
    /\ heap = <<>>
    /\ ReportUnset

\* the environment: what the NSE chart API holds for the current index
NseIndexData ==
    /\ pc = "nse"
    /\ nseUp = NoCall
    /\ nseUp' \in NseIndexUpstream
    /\ UNCHANGED <<pc, symbol, client, yfUp, queried, result, escaped>>
    /\ AnalyseIdle
    /\ ReportIdle

\* NSE first; a snapshot with a price ends the iteration (continue)
TryNseIndex ==
    /\ pc = "nse"
    /\ nseUp # NoCall
    /\ \E tieUp \in BOOLEAN :
          LET a == NseIndexAttempt(symbol, IndexTicker(Current), client, nseUp, tieUp)
          IN  IF a.hit
              THEN /\ result' = Append(result, <<symbol, a.snap>>)
                   /\ pc' = "next"
              ELSE /\ result' = result
                   /\ pc' = "yf"
    /\ queried' = Append(queried, "NSE")
    /\ UNCHANGED <<symbol, client, nseUp, yfUp, escaped>>
    /\ AnalyseIdle
    /\ ReportIdle

\* yfinance fallback; the iteration ends with a snapshot either way
TryYfIndex ==
    /\ pc = "yf"
    /\ \E up \in YfIndexUpstream, tieUp \in BOOLEAN :
          /\ yfUp' = up
          /\ result' = Append(result, <<symbol, YfIndexAttempt(up, tieUp)>>)
    /\ queried' = Append(queried, "YF")
    /\ pc' = "next"
    /\ UNCHANGED <<symbol, client, nseUp, escaped>>
    /\ AnalyseIdle
    /\ ReportIdle

\* for name, ticker in INDICES.items(): the next item, or return results
NextIndex ==
    /\ pc = "next"
    /\ IF Len(result) < Len(INDICES)
       THEN /\ pc' = "nse"
            /\ symbol' = IndexName(Current)
            /\ nseUp' = NoCall
            /\ yfUp' = NoCall
            /\ queried' = <<>>
       ELSE /\ pc' = "done"
            /\ UNCHANGED <<symbol, nseUp, yfUp, queried>>
    /\ UNCHANGED <<client, result, escaped>>
    /\ AnalyseIdle
    /\ ReportIdle

NextIndices == NseIndexData \/ TryNseIndex \/ TryYfIndex \/ NextIndex

SpecIndices == InitIndices /\ [][NextIndices]_vars

(***************************************************************************)
(* Properties of _fetch_ohlcv (specification SpecSeries)                   *)
(***************************************************************************)
Providers == [i \in 1..Len(queried) |-> queried[i][1]]

\* what each provider yielded to the running call
NseYield == IF nseUp = NoCall THEN EmptyFrame ELSE StockDataBody(nseUp).frame
YfYield == IF yfUp.kind = "frame" THEN yfUp.frame ELSE EmptyFrame

\* C1: for every symbol the providers are queried in one fixed order, NSE
\* then yfinance; yfinance is queried only if NSE raised or yielded an empty
\* series; the value returned is the series of the first provider that
\* yielded a non-empty one, and nothing is queried after it.
C1_FirstNonEmptyProvider ==
    /\ Providers \in {<<>>, <<"NSE">>, <<"NSE", "YF">>}
    /\ \A i \in 1..Len(queried) : queried[i][2][1] = symbol
    /\ (Len(queried) = 2 => IsEmpty(NseYield))
    /\ (pc = "done" =>
           /\ (~IsEmpty(NseYield) => (result = NseYield /\ Providers = <<"NSE">>))
           /\ ((IsEmpty(NseYield) /\ ~IsEmpty(YfYield)) => result = YfYield))

C1_Witness ==
    /\ pc = "done"
    /\ nseUp.kind = "frame"
    /\ IsEmpty(NseYield)
    /\ Providers = <<"NSE", "YF">>
    /\ ~IsEmpty(result)
    /\ result = yfUp.frame

\* C2: for every symbol and every combination of provider outcomes
\* (exception, timeout, empty result, malformed result) _fetch_ohlcv returns
\* a frame and no exception leaves it; when every provider raised or yielded
\* nothing, the frame returned is empty.
C2_NeverRaises ==
    /\ ~escaped
    /\ (pc = "done" =>
           /\ result # Unset
           /\ ((IsEmpty(NseYield) /\ IsEmpty(YfYield)) => IsEmpty(result)))

C2_Witness ==
    /\ pc = "done"
    /\ nseUp.kind = "frame"
    /\ ~IsEmpty(nseUp.frame)
    /\ "Close" \notin nseUp.frame.cols
    /\ yfUp.kind = "raise"
    /\ result = EmptyFrame
    /\ ~escaped

\* C13: every non-empty series _fetch_ohlcv returns, from whichever
\* provider, is sorted ascending by date and has no duplicate dates, whatever
\* the order and duplication of the rows the provider sent.
C13_SortedNoDuplicates ==
    (pc = "done" /\ result # Unset /\ ~IsEmpty(result)) =>
        \A i \in 1..(Len(result.rows) - 1) : result.rows[i].date < result.rows[i + 1].date

Min(a, b) == IF a <= b THEN a ELSE b

\* C14: when NSE throws and the secondary provider answers with a valid
\* single quote (lastPrice, previousClose, totalTradedVolume), the series
\* returned has exactly one bar with open = previousClose,
\* high = max(price, prevClose) * 1.01 and low = min(price, prevClose) * 0.99.
C14_QuoteBar ==
    (pc = "done" /\ nseUp.kind = "raise" /\ yfUp \in QuoteUpstream) =>
        /\ Len(result.rows) = 1
        /\ result.rows[1].open = yfUp.quote.previousClose
        /\ result.rows[1].high * 100 = Max(yfUp.quote.lastPrice, yfUp.quote.previousClose) * 101
        /\ result.rows[1].low * 100 = Min(yfUp.quote.lastPrice, yfUp.quote.previousClose) * 99

\* C15: yfinance is the source queried first, and the NSE API is queried only
\* as a fallback after yfinance has failed.
C15_YfinanceFirst ==
    /\ Providers \in {<<>>, <<"YF">>, <<"YF", "NSE">>}
    /\ (\E i \in 1..Len(queried) : queried[i][1] = "NSE") => IsEmpty(YfYield)

(***************************************************************************)
(* Properties of _fetch_indices (specification SpecIndices)                *)
(***************************************************************************)
\* the NSE provider has at least 2 bars with a close for the current index
PrimaryHasBars ==
    /\ client
    /\ nseUp.kind = "frame"
    /\ Len(nseUp.frame.rows) >= 2
    /\ nseUp.frame.closeName # ""

\* the snapshot of the two most recent closes of the NSE payload
PrimarySnapshot ==
    LET sorted == SortIndex(nseUp.frame.rows)
        n == Len(sorted)
    IN  Snapshot(sorted[n].close, sorted[n - 1].close, FALSE)

\* C3: for every tracked index, when the NSE provider has at least 2 bars the
\* snapshot returned is the one computed from its two most recent closes and
\* yfinance is not queried; yfinance is queried only when NSE failed or had
\* fewer than 2 usable bars.
C3_PrimaryIndexFirst ==
    /\ ((pc = "next" /\ PrimaryHasBars) =>
           /\ result[Len(result)] = <<symbol, PrimarySnapshot>>
           /\ queried = <<"NSE">>)
    /\ (\E i \in 1..Len(queried) : queried[i] = "YF") => ~PrimaryHasBars

\* yfinance answered the current index with at least 2 bars and a Close column
SecondaryHasBars ==
    /\ yfUp.kind = "frame"
    /\ Len(yfUp.frame.closes) >= 2
    /\ yfUp.frame.hasClose

\* C20: in every snapshot returned by _fetch_indices price is None if and
\* only if change_pct is None if and only if trend is unknown; and a snapshot
\* has price None only when every provider failed or had fewer than 2 usable
\* bars for that index.
C20_SnapshotConsistent ==
    /\ \A i \in 1..Len(result) :
           /\ (result[i][2].price = None <=> result[i][2].change_pct = None)
           /\ (result[i][2].price = None <=> result[i][2].trend = "-")
    /\ ((pc = "next" /\ result[Len(result)][2].price = None) =>
           (~PrimaryHasBars /\ ~SecondaryHasBars))

(***************************************************************************)
(* The report side: scheduling, message chunks, health bookkeeping.  The   *)
(* market-data and analysis variables are not involved.                    *)
(***************************************************************************)
CoreUnset ==
    /\ symbol = ""
    /\ client = FALSE
    /\ nseUp = NoCall
    /\ yfUp = NoCall
    /\ queried = <<>>
    /\ result = Unset
    /\ escaped = FALSE
    /\ df = Unset
    /\ sig = Unset
    /\ heap = <<>>

CoreIdle ==
    UNCHANGED <<symbol, client, nseUp, yfUp, queried, result, escaped, df, sig, heap>>

(***************************************************************************)
(* _build_app: the IST report time is converted to UTC and the daily job   *)
(* is registered.                                                          *)
(***************************************************************************)
ReportTimes == (0..23) \X (0..59)

UtcTime_NoBorrow(h, m) == [hour |-> (h - 5) % 24, minute |-> (m - 30) % 60]

\* bot.py lines 220-224; % is Python's, the result has the sign of the divisor
UtcTime(h, m) ==
    LET utc_h == (h - 5) % 24
        utc_m == (m - 30) % 60
    IN  [hour |-> IF m < 30 THEN (utc_h - 1) % 24 ELSE utc_h, minute |-> utc_m]

InitSchedule ==
    /\ pc = "build"
    /\ report_time \in ReportTimes
    /\ job = Unset
    /\ parts = <<>>
    /\ idx = 0
    /\ messages = <<>>
    /\ current = <<>>
    /\ file = Unset
    /\ monitors = <<>>
    /\ CoreUnset

\* job_queue.run_daily(scheduled_report, time=dtime(hour=utc_h, minute=utc_m, second=0), ...)
BuildApp ==
    /\ pc = "build"
    /\ job' = [name |-> "daily_stock_report",
               time |-> UtcTime(report_time[1], report_time[2])]
    /\ pc' = "polling"
    /\ UNCHANGED <<report_time, parts, idx, messages, current, file, monitors>>
    /\ CoreIdle

NextSchedule == BuildApp

SpecSchedule == InitSchedule /\ [][NextSchedule]_vars

(***************************************************************************)
(* Properties of the daily job (specification SpecSchedule)                *)
(***************************************************************************)
MinuteOfDay(h, m) == h * 60 + m

\* C23: for every report time (h, m) in IST, 0 <= h <= 23 and 0 <= m <= 59,
\* the daily job is registered at the UTC time that is (h, m) minus 5 hours
\* 30 minutes modulo 24 hours, with hour in 0..23 and minute in 0..59.
C23_IstToUtc ==
    pc = "polling" =>
        /\ job.time.hour \in 0..23
        /\ job.time.minute \in 0..59
        /\ MinuteOfDay(job.time.hour, job.time.minute)
              = (MinuteOfDay(report_time[1], report_time[2]) + 24 * 60 - (5 * 60 + 30)) % (24 * 60)

\* the configured time, 09:00 IST: the minutes borrow an hour, 03:30 UTC
C23_Witness ==
    /\ pc = "polling"
    /\ report_time = DAILY_REPORT_TIME_IST
    /\ job.time = [hour |-> 3, minute |-> 30]

(***************************************************************************)
(* MessageFormatter._chunk.  A string is a sequence of runs of characters: *)
(* a run records the part it comes from (0 for text _chunk adds), its      *)
(* length and whether it is whitespace.  A part is a body with the same    *)
(* amount of whitespace before and after it.                               *)
(***************************************************************************)
MaxParts == 3
MAX_MSG_LEN == 4000

RunOf(i, n, blank) == [of |-> i, len |-> n, blank |-> blank]

Newline == <<RunOf(0, 1, TRUE)>>

\* "No data to display."
NoDataMessage == <<RunOf(0, 19, FALSE)>>

Bodies == {0, 1, MAX_MSG_LEN \div 2, MAX_MSG_LEN - 1, MAX_MSG_LEN, MAX_MSG_LEN + 1}
Pads == {0, 1}

PartOf(i, pad, body) ==
    SelectSeq(<<RunOf(i, pad, TRUE), RunOf(i, body, FALSE), RunOf(i, pad, TRUE)>>,
              LAMBDA r : r.len > 0)

PartLists ==
    UNION { { [i \in 1..n |-> PartOf(i, pads[i], bodies[i])] :
                pads \in [1..n -> Pads], bodies \in [1..n -> Bodies] } : n \in 0..MaxParts }

\* len(s)
RECURSIVE Length(_)
Length(s) == IF s = <<>> THEN 0 ELSE Head(s).len + Length(Tail(s))

\* s.lstrip()
RECURSIVE LStrip(_)
LStrip(s) == IF s # <<>> /\ Head(s).blank THEN LStrip(Tail(s)) ELSE s

\* s.rstrip()
RECURSIVE RStrip(_)
RStrip(s) ==
    IF s # <<>> /\ s[Len(s)].blank THEN RStrip(SubSeq(s, 1, Len(s) - 1)) ELSE s

\* s.strip()
Strip(s) == RStrip(LStrip(s))

InitChunk ==
    /\ pc = "loop"
    /\ parts \in PartLists
    /\ idx = 0
    /\ messages = <<>>
    /\ current = <<>>
    /\ job = Unset
    /\ file = Unset
    /\ monitors = <<>>
    /\ report_time = DAILY_REPORT_TIME_IST
    /\ CoreUnset

ChunkIdle ==
    /\ UNCHANGED <<parts, job, file, monitors, report_time>>
    /\ CoreIdle

\* lines 141-144: the part does not fit, current is closed and restarted
ChunkFlush ==
    /\ pc = "loop"
    /\ idx < Len(parts)
    /\ LET part == parts[idx + 1]
       IN  /\ Length(current) + Length(part) + 1 > MAX_MSG_LEN
           /\ messages' = (IF current # <<>> THEN Append(messages, Strip(current))
                           ELSE messages)
           /\ current' = part
    /\ idx' = idx + 1
    /\ pc' = "loop"
    /\ ChunkIdle

\* lines 145-146: the part is added to current
ChunkJoin ==
    /\ pc = "loop"
    /\ idx < Len(parts)
    /\ LET part == parts[idx + 1]
       IN  /\ ~(Length(current) + Length(part) + 1 > MAX_MSG_LEN)
           /\ current' = current \o (IF current # <<>> THEN Newline ELSE <<>>) \o part
    /\ idx' = idx + 1
    /\ pc' = "loop"
    /\ UNCHANGED messages
    /\ ChunkIdle

\* lines 147-149
ChunkReturn ==
    /\ pc = "loop"
    /\ idx = Len(parts)
    /\ LET all == IF Strip(current) # <<>> THEN Append(messages, Strip(current))
                  ELSE messages
       IN  messages' = (IF all # <<>> THEN all ELSE <<NoDataMessage>>)
    /\ pc' = "returned"
    /\ UNCHANGED <<idx, current>>
    /\ ChunkIdle

NextChunk == ChunkFlush \/ ChunkJoin \/ ChunkReturn

SpecChunk == InitChunk /\ [][NextChunk]_vars

(***************************************************************************)
(* Properties of _chunk (specification SpecChunk)                          *)
(***************************************************************************)
\* the parts whose text a string holds, in order
RECURSIVE TextOf(_)
TextOf(s) ==
    IF s = <<>> THEN <<>>
    ELSE (IF Head(s).blank \/ Head(s).of = 0 THEN <<>> ELSE <<Head(s).of>>) \o TextOf(Tail(s))

RECURSIVE TextOfAll(_)
TextOfAll(ss) == IF ss = <<>> THEN <<>> ELSE TextOf(Head(ss)) \o TextOfAll(Tail(ss))

WithinLimit == \A k \in 1..Len(messages) : Length(messages[k]) <= MAX_MSG_LEN

InOrderNoneDropped == TextOfAll(messages) = TextOfAll(parts)

NeverEmpty == messages # <<>>

\* C22: for every list of parts, every message _chunk returns has length
\* <= MAX_MSG_LEN, the text of the parts appears in the messages in the
\* original order with none dropped, and the returned list is not empty.
C22_ChunkWithinLimit ==
    pc = "returned" => (WithinLimit /\ InOrderNoneDropped /\ NeverEmpty)

(***************************************************************************)
(* Health bookkeeping.  Every build_and_send_report invocation (the daily  *)
(* job, /report, run_report_once.py) creates a HealthMonitor before its    *)
(* first await and records the outcome after the last one; the steps of    *)
(* different invocations interleave at the awaits.  file is Unset while    *)
(* data/health.json does not exist.                                        *)
(***************************************************************************)
MaxRuns == 3

Invocations == 1..MaxRuns

\* HealthMonitor._load, lines 28-36
NeverRun ==
    [total_runs |-> 0, successes |-> 0, failures |-> 0, last_status |-> "Never run"]

\* HealthMonitor._load
Load(f) == IF f = Unset THEN NeverRun ELSE f

\* record_success up to the save
Success(st) ==
    [st EXCEPT !.total_runs = @ + 1, !.successes = @ + 1, !.last_status = "Success"]

\* record_failure up to the save
Failure(st) ==
    [st EXCEPT !.total_runs = @ + 1, !.failures = @ + 1, !.last_status = "Failed"]

InitHealth ==
    /\ pc = "polling"
    /\ file = Unset
    /\ monitors = [i \in Invocations |-> [at |-> "idle", state |-> Unset]]
    /\ parts = <<>>
    /\ idx = 0
    /\ messages = <<>>
    /\ current = <<>>
    /\ job = Unset
    /\ report_time = DAILY_REPORT_TIME_IST
    /\ CoreUnset

HealthIdle ==
    /\ UNCHANGED <<pc, parts, idx, messages, current, job, report_time>>
    /\ CoreIdle

\* health = HealthMonitor(), bot.py line 60
StartReport(i) ==
    /\ monitors[i].at = "idle"
    /\ monitors' = [monitors EXCEPT ![i] = [at |-> "building", state |-> Load(file)]]
    /\ UNCHANGED file
    /\ HealthIdle

\* health.record_success(), bot.py line 89
RecordSuccess(i) ==
    /\ monitors[i].at = "building"
    /\ LET st == Success(monitors[i].state)
       IN  /\ monitors' = [monitors EXCEPT ![i] = [at |-> "done", state |-> st]]
           /\ file' = st
    /\ HealthIdle

\* health.record_failure(str(exc)), bot.py line 94
RecordFailure(i) ==
    /\ monitors[i].at = "building"
    /\ LET st == Failure(monitors[i].state)
       IN  /\ monitors' = [monitors EXCEPT ![i] = [at |-> "done", state |-> st]]
           /\ file' = st
    /\ HealthIdle

NextHealth ==
    \E i \in Invocations : StartReport(i) \/ RecordSuccess(i) \/ RecordFailure(i)

SpecHealth == InitHealth /\ [][NextHealth]_vars

(***************************************************************************)
(* Properties of the health file (specification SpecHealth)                *)
(***************************************************************************)
Completed == Cardinality({i \in Invocations : monitors[i].at = "done"})

\* C24: after any interleaving of k completed build_and_send_report
\* invocations the persisted state has total_runs increased by exactly k
\* (the file starts absent, so total_runs = k) and total_runs = successes
\* + failures.
C24_NoRunLost ==
    LET st == Load(file)
    IN  /\ st.total_runs = Completed
        /\ st.total_runs = st.successes + st.failures

====
